---- MODULE Spec2Model ----
(***************************************************************************)
(* The authentication / session core of the budget tracker backend:        *)
(* token issuance and verification (services/authService), the revocation  *)
(* ledger (services/tokenBlacklist), the request-authentication gate       *)
(* (middleware/auth), the rate limiters and the error handler              *)
(* (middleware/rateLimit, middleware/errorHandler), the /auth routes       *)
(* (routes/auth.ts), and the frontend's response interceptor               *)
(* (services/api.ts).                                                      *)
(*                                                                         *)
(* Time is counted in seconds; the rate limiters' clock counts             *)
(* milliseconds.  The relational tables are sets of rows.                  *)
(***************************************************************************)
EXTENDS Integers, FiniteSets, Sequences, TLC

----------------------------------------------------------------------------
\* Bounds of the model.

\* Ids the users table hands out (gen_random_uuid() never repeats one).
MaxUsers == 1
\* Number of times the clock is advanced.
MaxTicks == 2

\* Number of calls of RateLimiter.isAllowed.
MaxCalls == 5
\* Number of times the limiter's clock is advanced.
MaxMsTicks == 3
\* Number of password-reset tokens requestPasswordReset generates.
MaxResets == 2

\* Number of requests that reach the middleware chain of the /auth routes.
MaxArrivals == 3
\* Number of requests the frontend sends through its axios instance.
MaxRequests == 3
\* Number of clients whose POST /auth/register may be in progress at once.
MaxCallers == 2
\* Number of POST /auth/register requests those clients send.
MaxRegCalls == 3

\* Addresses clients register and log in with.
Emails == {"a@b.com"}
\* Addresses the concurrent registrations are for.
Applicants == Emails \cup {"c@d.com"}
\* Addresses clients try to log in with: those, and one nobody registers.
LoginEmails == Emails \cup {"nobody@b.com"}
\* Passwords clients type, with their length.
Passwords ==
    { [text |-> "short", length |-> 7],
      [text |-> "Passw0rd", length |-> 8] }
\* Salts Bun.password.hash may draw (in the program: 16 random bytes).
Salts == {1, 2}

----------------------------------------------------------------------------
\* Program constants.

Day == 24 * 60 * 60
\* tokenBlacklist.ts:8, expiresAt.setDate(expiresAt.getDate() + 8)
BlacklistDays == 8
\* tokenBlacklist.ts:78, INTERVAL '30 days'
RetentionDays == 30
\* env.ts:22, 15 minutes: the lifetime of an access token (spec 4.1: 900 s)
AccessTTL == 15 * 60
\* The value JavaScript reads from a claim the payload does not hold.
Undefined == -1
\* NULL in a column of the users table.
Null == 0
\* env.ts:32, hours a password-reset token lasts
PASSWORD_RESET_EXPIRY_HOURS == 1
\* verifyToken called without expectedType.
NoType == ""

\* How far one step of the clock may go: the lifetime of an access token, and the
\* retention of a logout timestamp (by then a ledger entry has lapsed as well).
TickSteps == {AccessTTL, RetentionDays * Day}

----------------------------------------------------------------------------
VARIABLES
    now,                    \* Date.now() / NOW(), in seconds
    ticks,                  \* how often the clock was advanced
    users,                  \* table users: rows [id, email, password_hash]
    nextId,                 \* the next id the users table hands out
    token_blacklist,        \* table token_blacklist: rows [token_hash, user_id, expires_at]
    user_logout_timestamps, \* table user_logout_timestamps: rows [user_id, logout_at]
    issued,                 \* history: the tokens handed to clients
    pastTTL,                \* history: tokens last issued at least AccessTTL ago
    loggedOut,              \* history: tokens POST /auth/logout was served for
    beforeAll,              \* history: tokens issued at or before their user's logout-all cutoff
    afterAll,               \* history: tokens issued strictly after their user's latest cutoff
    cutNow,                 \* history: users whose logout-all cutoff is the current second
    lastResp,               \* the response just served (none once the clock or the cleanup ran)
    registered              \* the registration served just before it, if one was

\* One RateLimiter instance (middleware/rateLimit.ts); its clock counts milliseconds.
VARIABLES
    nowMs,                  \* Date.now(), in milliseconds
    msTicks,                \* how often the limiter's clock was advanced
    windowSize,             \* this.windowSize
    maxRequests,            \* this.maxRequests
    requests,               \* this.requests: clientId -> {count, resetTime}
    allowedAt,              \* history: per client, the times of the requests let through
    calls,                  \* history: number of isAllowed calls so far
    lastCall                \* the isAllowed call just made (none once the clock moved)

\* Password reset (AuthService.requestPasswordReset / resetPassword).
VARIABLES
    nextResetToken,         \* the next value crypto.getRandomValues yields (never repeats one)
    resetIssued,            \* history: [token, user_id] of the tokens stored so far
    resetUsed,              \* history: tokens a reset has changed a password with
    lastReset               \* what the last POST /auth/reset-password saw and did

\* POST /auth/register requests in progress side by side (one per awaiting handler).
VARIABLES
    regCalls,               \* per client: where its handler stands and what it holds
    regCount,               \* how many requests were sent so far
    regLog                  \* history: the requests answered, each with its response

\* app.onError (middleware/errorHandler.ts).
VARIABLES
    nodeEnv,                \* env.NODE_ENV
    errIn,                  \* the error app.onError was handed last
    errOut                  \* the status and body it answered with

resets == <<nextResetToken, resetIssued, resetUsed, lastReset>>

regs == <<regCalls, regCount, regLog>>

\* One call of TokenBlacklist.isTokenValidForUser.
VARIABLES
    validSeen               \* the call made last: its arguments, the rows it read, its result

\* The middleware chain in front of the /auth routes (index.ts, routes/auth.ts).
VARIABLES
    limiters,               \* globalLimiter, authLimiter, strictLimiter: their requests maps
    inflight,               \* the request the chain took in last, and how far it got
    arrivals                \* how many requests came in so far

\* The frontend's axios instance and its response interceptor (services/api.ts).
VARIABLES
    isRefreshing,           \* let isRefreshing
    failedQueue,            \* let failedQueue: the requests waiting for the refresh
    reqs,                   \* per request: its config (url, _retry) and where it stands
    refreshes,              \* the requests whose POST /auth/refresh is in flight
    seen401,                \* history: the error response the interceptor handled last
    settled                 \* history: the refresh that settled last

errs == <<nodeEnv, errIn, errOut>>

valids == <<validSeen>>

gates == <<limiters, inflight, arrivals>>

fronts == <<isRefreshing, failedQueue, reqs, refreshes, seen401, settled>>

\* The state only the specifications further down move.
extras == <<regs, errs, valids, gates, fronts>>
exceptRegs == <<errs, valids, gates, fronts>>
exceptErrs == <<regs, valids, gates, fronts>>
exceptValids == <<regs, errs, gates, fronts>>
exceptGates == <<regs, errs, valids, fronts>>
exceptFronts == <<regs, errs, valids, gates>>

limiter == <<nowMs, msTicks, windowSize, maxRequests, requests, allowedAt, calls,
             lastCall>>

vars == <<now, ticks, users, nextId, token_blacklist, user_logout_timestamps,
          issued, pastTTL, loggedOut, beforeAll, afterAll, cutNow, lastResp,
          registered, limiter, resets, extras>>

store == <<users, nextId>>
ledger == <<token_blacklist, user_logout_timestamps>>
clock == <<now, ticks>>
cutoffs == <<beforeAll, afterAll, cutNow>>
tokens_out == <<issued, pastTTL, beforeAll, afterAll>>

----------------------------------------------------------------------------
\* Token codec (hono/jwt sign and verify, HS256).

\* getCookie / the Authorization header gave nothing.
NoToken ==
    [claims |-> [userId |-> 0, email |-> "", tokenType |-> "",
                 iat |-> Undefined, exp |-> Undefined],
     sig |-> "none"]

\* sign(payload, JWT_SECRET, "HS256"): the payload as given, plus the MAC.
sign(payload) == [claims |-> payload, sig |-> "HS256"]

\* A token a client made up: claims of its choice, no valid MAC.
ForgedToken ==
    [claims |-> [userId |-> 1, email |-> "a@b.com", tokenType |-> "access",
                 iat |-> Undefined, exp |-> Undefined],
     sig |-> "forged"]

generateAccessToken(user) ==
    sign([userId |-> user.id, email |-> user.email, tokenType |-> "access",
          iat |-> Undefined, exp |-> Undefined])

generateRefreshToken(user) ==
    sign([userId |-> user.id, email |-> user.email, tokenType |-> "refresh",
          iat |-> Undefined, exp |-> Undefined])

generateTokens(user) ==
    [accessToken |-> generateAccessToken(user),
     refreshToken |-> generateRefreshToken(user)]

\* verify(token, JWT_SECRET, "HS256"): the MAC, then exp and iat when present.
verify(token) ==
    /\ token.sig = "HS256"
    /\ ~(token.claims.exp # Undefined /\ token.claims.exp <= now)
    /\ ~(token.claims.iat # Undefined /\ now < token.claims.iat)

\* TRUE when verifyToken returns the payload, FALSE when it returns null.
verifyToken(token, expectedType) ==
    /\ verify(token)
    /\ ~(token.claims.userId = 0 \/ token.claims.email = ""
            \/ token.claims.tokenType = "")
    /\ ~(expectedType # NoType /\ token.claims.tokenType # expectedType)

verifyAccessToken(token) == verifyToken(token, "access")

verifyRefreshToken_AnyKind(token) == verifyToken(token, NoType)

verifyRefreshToken(token) == verifyToken(token, "refresh")

----------------------------------------------------------------------------
\* Credential store (UserService).

\* Bun.password.hash(password, bcrypt) as Bun.password.verify sees it.
bcryptHash(password) == <<"bcrypt", password.text>>

verifyPassword(plainPassword, hashedPassword) ==
    hashedPassword = bcryptHash(plainPassword)

findByEmail(email) == {u \in users : u.email = email}

findById(id) == {u \in users : u.id = id}

----------------------------------------------------------------------------
\* Revocation ledger (TokenBlacklist).

\* Bun.password.hash(token): a salted hash, the salt is part of the result.
passwordHash(token, salt) == <<token, salt>>

\* The table after blacklistToken(token, userId).
blacklistToken(token, userId, salt) ==
    LET row == [token_hash |-> passwordHash(token, salt),
                user_id |-> userId,
                expires_at |-> now + BlacklistDays * Day]
    IN  IF \E r \in token_blacklist : r.token_hash = row.token_hash
        THEN token_blacklist
        ELSE token_blacklist \cup {row}

isBlacklisted(token, salt) ==
    \E r \in token_blacklist :
        /\ r.token_hash = passwordHash(token, salt)
        /\ r.expires_at > now

\* The table after blacklistAllUserTokens(userId).
blacklistAllUserTokens(userId) ==
    {r \in user_logout_timestamps : r.user_id # userId}
        \cup {[user_id |-> userId, logout_at |-> now]}

JsGreater_OrEqual(a, b) == a # Undefined /\ a >= b

\* tokenIssuedAt > logoutTimestamp as JavaScript compares: undefined > x is false.
JsGreater(a, b) == a # Undefined /\ a > b

isTokenValidForUser_NoEarlyReturn(userId, tokenIssuedAt) ==
    \E r \in user_logout_timestamps :
        r.user_id = userId /\ JsGreater(tokenIssuedAt, r.logout_at)

isTokenValidForUser(userId, tokenIssuedAt) ==
    LET result == {r \in user_logout_timestamps : r.user_id = userId}
    IN  IF result = {}
        THEN TRUE
        ELSE \A r \in result : JsGreater(tokenIssuedAt, r.logout_at)

----------------------------------------------------------------------------
\* Responses.

Response(op, status, error, token, userId, cookies) ==
    [op |-> op, status |-> status, error |-> error, token |-> token,
     userId |-> userId, cookies |-> cookies, cause |-> ""]

\* The response r, with the branch of the handler that produced it (the server's log).
Because(r, cause) == [r EXCEPT !.cause = cause]

NoResponse == Response("none", 0, "", NoToken, 0, {})

\* setCookie(access_token), setCookie(refresh_token)
SetCookies(tokens) ==
    { [name |-> "access_token", value |-> tokens.accessToken],
      [name |-> "refresh_token", value |-> tokens.refreshToken] }

\* deleteCookie(access_token), deleteCookie(refresh_token)
ClearCookies ==
    { [name |-> "access_token", value |-> NoToken],
      [name |-> "refresh_token", value |-> NoToken] }

Respond(r) ==
    /\ lastResp' = r
    /\ registered' = IF lastResp.op = "register" /\ lastResp.status = 201
                      THEN lastResp
                      ELSE NoResponse

\* What a client can send: a token it was handed, one it made up, or none.
Presentable == issued \cup {ForgedToken, NoToken}

\* Users for whom POST /auth/logout-all has recorded a cutoff.
CutUsers == {t.claims.userId : t \in beforeAll}

\* The histories after handing the tokens of `toks` to a client.
Issue(toks) ==
    /\ issued' = issued \cup toks
    /\ pastTTL' = pastTTL \ toks
    /\ beforeAll' = beforeAll \cup {t \in toks : t.claims.userId \in cutNow}
    /\ afterAll' = afterAll \cup
          {t \in toks : t.claims.userId \in CutUsers \ cutNow}

----------------------------------------------------------------------------
\* Request-authentication gate (middleware/auth.ts).

\* The response authMiddleware gives, status 200 standing for next().
authMiddleware(accessToken, salt) ==
    LET op == "auth" IN
    IF accessToken = NoToken
    THEN Response(op, 401, "No access token provided. Please login first.",
                  accessToken, 0, {})
    ELSE IF isBlacklisted(accessToken, salt)
    THEN Response(op, 401, "Token has been invalidated. Please login again.",
                  accessToken, 0, {})
    ELSE IF ~verifyToken(accessToken, NoType)
    THEN Response(op, 401,
                  "Invalid or expired access token. Please refresh your session.",
                  accessToken, 0, {})
    ELSE IF ~isTokenValidForUser(accessToken.claims.userId, accessToken.claims.iat)
    THEN Response(op, 401, "Session has been terminated. Please login again.",
                  accessToken, 0, {})
    ELSE IF findById(accessToken.claims.userId) = {}
    THEN Response(op, 401,
                  "Invalid or expired access token. Please refresh your session.",
                  accessToken, 0, {})
    ELSE Response(op, 200, "", accessToken, accessToken.claims.userId, {})

----------------------------------------------------------------------------
\* Rate limiter (middleware/rateLimit.ts).

\* Client fingerprints getClientId computes (ip:user-agent).
Clients == {"10.0.0.1:curl", "10.0.0.2:curl"}
\* Windows (ms) and ceilings a limiter is constructed with.
WindowSizes == {1000, 2500}
Ceilings == {1, 2}
\* How far one step of the limiter's clock may go (ms).
MsSteps == {1, 999, 1000, 1500}

\* env.ts:35-36, the globalLimiter's parameters
RATE_LIMIT_WINDOW_MS == 60000
RATE_LIMIT_MAX_REQUESTS == 1000

\* this.requests.get(clientId) of a client the map does not hold.
NoClientData == [count |-> 0, resetTime |-> 0]

\* Math.ceil(a / b)
MathCeil(a, b) == -((-a) \div b)

\* now > clientData.resetTime
windowExpired(clientData, t) == t > clientData.resetTime

limitReached_OffByOne(clientData) == clientData.count > maxRequests

\* clientData.count >= this.maxRequests
limitReached(clientData) == clientData.count >= maxRequests

newWindow_KeepDeadline(t) == [count |-> 1, resetTime |-> t]

\* The entry isAllowed stores for a first request or an expired window.
newWindow(t) == [count |-> 1, resetTime |-> t + windowSize]

\* What isAllowed(c) returns for the client whose entry is clientData.
isAllowed(clientData) ==
    IF clientData = NoClientData \/ windowExpired(clientData, nowMs)
    THEN [allowed |-> TRUE, retryAfter |-> Undefined]
    ELSE IF limitReached(clientData)
    THEN [allowed |-> FALSE,
          retryAfter |-> MathCeil(clientData.resetTime - nowMs, 1000)]
    ELSE [allowed |-> TRUE, retryAfter |-> Undefined]

isAllowedEntry_CountsRejected(clientData) ==
    IF clientData = NoClientData \/ windowExpired(clientData, nowMs)
    THEN newWindow(nowMs)
    ELSE [clientData EXCEPT !.count = clientData.count + 1]

\* The entry isAllowed(c) leaves in this.requests for that client.
isAllowedEntry(clientData) ==
    IF clientData = NoClientData \/ windowExpired(clientData, nowMs)
    THEN newWindow(nowMs)
    ELSE IF limitReached(clientData)
    THEN clientData
    ELSE [clientData EXCEPT !.count = clientData.count + 1]

rateLimitStatus_AlwaysNext(result) == 200

\* The status createRateLimitMiddleware answers with, 200 standing for next().
rateLimitStatus(result) == IF ~result.allowed THEN 429 ELSE 200

NoCall == [clientId |-> "", before |-> NoClientData, allowed |-> TRUE,
           retryAfter |-> Undefined, status |-> 0]

\* new RateLimiter(windowSizeMs, maxReq)
RateLimiter(windowSizeMs, maxReq) ==
    /\ nowMs = 0
    /\ msTicks = 0
    /\ windowSize = windowSizeMs
    /\ maxRequests = maxReq
    /\ requests = [c \in Clients |-> NoClientData]
    /\ allowedAt = [c \in Clients |-> <<>>]
    /\ calls = 0
    /\ lastCall = NoCall

\* A request of client clientId reaches the limiter's middleware.
RateLimitRequest(clientId) ==
    /\ calls < MaxCalls
    /\ LET clientData == requests[clientId]
           result == isAllowed(clientData)
       IN  /\ requests' = [requests EXCEPT ![clientId] = isAllowedEntry(clientData)]
           /\ allowedAt' = IF result.allowed
                            THEN [allowedAt EXCEPT ![clientId] = Append(@, nowMs)]
                            ELSE allowedAt
           /\ lastCall' = [clientId |-> clientId, before |-> clientData,
                            allowed |-> result.allowed,
                            retryAfter |-> result.retryAfter,
                            status |-> rateLimitStatus(result)]
    /\ calls' = calls + 1
    /\ UNCHANGED <<nowMs, msTicks, windowSize, maxRequests>>
    /\ UNCHANGED <<clock, store, ledger, tokens_out, loggedOut, cutNow, lastResp,
                   registered, resets, extras>>

\* RateLimiter.cleanup, run by setInterval.
cleanup ==
    /\ requests' = [c \in Clients |->
                        IF nowMs > requests[c].resetTime
                        THEN NoClientData
                        ELSE requests[c]]
    /\ UNCHANGED <<nowMs, msTicks, windowSize, maxRequests, allowedAt, calls,
                   lastCall>>
    /\ UNCHANGED <<clock, store, ledger, tokens_out, loggedOut, cutNow, lastResp,
                   registered, resets, extras>>

\* The limiter's clock advances.
MsTick(d) ==
    /\ msTicks < MaxMsTicks
    /\ nowMs' = nowMs + d
    /\ msTicks' = msTicks + 1
    /\ lastCall' = NoCall
    /\ UNCHANGED <<windowSize, maxRequests, requests, allowedAt, calls>>
    /\ UNCHANGED <<clock, store, ledger, tokens_out, loggedOut, cutNow, lastResp,
                   registered, resets, extras>>

----------------------------------------------------------------------------
\* Password reset (AuthService, UserService, routes/auth.ts).

\* Passwords POST /auth/reset-password is sent, with what validatePassword tests.
NewPasswords ==
    { [text |-> "Ab1!", length |-> 4, lower |-> TRUE, upper |-> TRUE,
       digit |-> TRUE, special |-> TRUE],
      [text |-> "Passw0rd", length |-> 8, lower |-> TRUE, upper |-> TRUE,
       digit |-> TRUE, special |-> FALSE],
      [text |-> "Str0ng!pw", length |-> 9, lower |-> TRUE, upper |-> TRUE,
       digit |-> TRUE, special |-> TRUE],
      [text |-> "0ther$Pw", length |-> 8, lower |-> TRUE, upper |-> TRUE,
       digit |-> TRUE, special |-> TRUE] }

\* A token string no requestPasswordReset ever generated.
BogusResetToken == MaxResets + 1
\* Tokens a client may send to POST /auth/reset-password.
ResetTokens == 1 .. BogusResetToken

\* AuthService.validatePassword(password).valid
validatePassword(password) ==
    /\ ~(password.length < 8)
    /\ password.lower
    /\ password.upper
    /\ password.digit
    /\ password.special

\* result.length of an UPDATE without RETURNING: Bun's SQL yields no rows.
UpdateResultLength(rows) == 0

setPasswordResetToken_KeepOld(u, token) ==
    IF u.password_reset_token = Null
    THEN [u EXCEPT !.password_reset_token = token,
                   !.password_reset_expires =
                       now + PASSWORD_RESET_EXPIRY_HOURS * 60 * 60]
    ELSE u

\* The row UserService.setPasswordResetToken leaves for a user of that email.
setPasswordResetToken(u, token) ==
    [u EXCEPT !.password_reset_token = token,
              !.password_reset_expires =
                  now + PASSWORD_RESET_EXPIRY_HOURS * 60 * 60]

\* WHERE password_reset_token = token AND password_reset_expires > NOW()
resetMatches(u, token) ==
    /\ u.password_reset_token # Null
    /\ u.password_reset_token = token
    /\ u.password_reset_expires > now

resetPasswordRow_KeepToken(u, newPassword) ==
    [u EXCEPT !.password_hash = bcryptHash(newPassword)]

\* The row UserService.resetPassword leaves for a user its WHERE selects.
resetPasswordRow(u, newPassword) ==
    [u EXCEPT !.password_hash = bcryptHash(newPassword),
              !.password_reset_token = Null,
              !.password_reset_expires = Null]

NoReset == [token |-> Null, status |-> 0, ok |-> FALSE, changed |-> FALSE,
            matched |-> FALSE, strong |-> FALSE, wasUsed |-> FALSE,
            superseded |-> FALSE]

\* The token requestPasswordReset stored last for user id.
LatestIssued(id) ==
    {r.token : r \in {x \in resetIssued :
        x.user_id = id /\ \A y \in resetIssued : y.user_id = id => y.token <= x.token}}

\* What AuthService.requestPasswordReset returns, and the branch it took; sent
\* is what EmailService.sendPasswordResetEmail resolves to.
requestPasswordReset(email, sent) ==
    LET user == findByEmail(email)
        \* UserService.setPasswordResetToken: result.length > 0
        tokenSet == UpdateResultLength(user) > 0
    IN  IF user = {}
        THEN [returned |-> TRUE, cause |-> "unknown-email"]
        ELSE IF ~tokenSet
        \* throw new Error("Failed to set password reset token"), caught
        THEN [returned |-> FALSE, cause |-> "store-failed"]
        ELSE IF ~sent
        THEN [returned |-> TRUE, cause |-> "email-failed"]
        ELSE [returned |-> TRUE, cause |-> "sent"]

forgotPasswordRoute_ChecksResult(outcome) ==
    IF outcome.returned
    THEN Response("forgot-password", 200, "", NoToken, 0, {})
    ELSE Response("forgot-password", 500, "Password reset request failed",
                  NoToken, 0, {})

\* The response of POST /auth/forgot-password: the value awaited is dropped.
forgotPasswordRoute(outcome) ==
    Response("forgot-password", 200, "", NoToken, 0, {})

\* POST /auth/forgot-password
ForgotPassword(email, sent) ==
    /\ UNCHANGED <<clock, nextId, ledger, tokens_out, loggedOut, cutNow, limiter, extras,
                   resetUsed, lastReset>>
    /\ LET outcome == requestPasswordReset(email, sent)
       IN  Respond(Because(forgotPasswordRoute(outcome), outcome.cause))
    /\ IF findByEmail(email) = {}
       THEN UNCHANGED <<users, nextResetToken, resetIssued>>
       ELSE /\ nextResetToken <= MaxResets
            /\ users' = {IF u.email = email
                           THEN setPasswordResetToken(u, nextResetToken)
                           ELSE u : u \in users}
            /\ resetIssued' = resetIssued \cup
                  {[token |-> nextResetToken, user_id |-> u.id] :
                        u \in findByEmail(email)}
            /\ nextResetToken' = nextResetToken + 1

\* POST /auth/reset-password
ResetPassword(token, password) ==
    LET schemaOk == ~(password.length < 8)
        valid == validatePassword(password)
        target == {u \in users : resetMatches(u, token)}
        updated == IF schemaOk /\ valid THEN target ELSE {}
        \* UserService.resetPassword: result.length > 0
        success == UpdateResultLength(updated) > 0
        \* AuthService.resetPassword: true unless it threw
        ok == valid /\ success
    IN  /\ UNCHANGED <<clock, nextId, ledger, tokens_out, loggedOut, cutNow, limiter, extras,
                       nextResetToken, resetIssued>>
        /\ users' = {IF u \in updated THEN resetPasswordRow(u, password) ELSE u :
                         u \in users}
        /\ resetUsed' = IF updated # {} THEN resetUsed \cup {token} ELSE resetUsed
        /\ LET status == IF ~schemaOk THEN 400 ELSE 200
           IN  /\ lastReset' =
                      [token |-> token, status |-> status, ok |-> ok,
                       changed |-> updated # {},
                       matched |-> target # {},
                       strong |-> valid,
                       wasUsed |-> token \in resetUsed,
                       superseded |->
                          \E r \in resetIssued :
                              r.token = token /\ token \notin LatestIssued(r.user_id)]
               /\ Respond(Response("reset-password", status,
                       IF status = 400
                       THEN "Password must be at least 8 characters long"
                       ELSE "", NoToken, 0, {}))

----------------------------------------------------------------------------
----------------------------------------------------------------------------
\* Error handler (middleware/errorHandler.ts).

\* NODE_ENV: z.enum(["development", "production", "test"])
Modes == {"development", "production", "test"}

\* new AppError(message, statusCode, expose); err.stack names the message and
\* the frames.
AppError(message, statusCode, expose) ==
    [message |-> message, stack |-> <<"Error", message, "at">>,
     statusCode |-> statusCode, expose |-> expose, isAppError |-> TRUE]

\* new Error(message): no statusCode, no expose.
PlainError(message) ==
    [message |-> message, stack |-> <<"Error", message, "at">>,
     statusCode |-> Undefined, expose |-> FALSE, isAppError |-> FALSE]

createInternalError(message) == AppError(message, 500, FALSE)

\* What handlers throw.
ErrorMessages ==
    {"connect ECONNREFUSED 10.0.0.5:5432", "Budget not found",
     "relation \"budgets\" does not exist"}
StatusCodes == {400, 401, 404, 500, 503}
Thrown ==
    {AppError(m, sc, e) : m \in ErrorMessages, sc \in StatusCodes, e \in BOOLEAN}
        \cup {PlainError(m) : m \in ErrorMessages}

\* The error asyncHandler(fn) rethrows when fn rejects with err.
asyncHandler(err) ==
    IF err.isAppError THEN err ELSE createInternalError("An unexpected error occurred")

NoDetails == <<>>
NoError == PlainError("")
NoBody == [status |-> 0, error |-> "", statusCode |-> 0, details |-> NoDetails]

\* The response of the handler createSecureErrorHandler returns: c.json(body, status).
createSecureErrorHandler(err, mode) ==
    LET isDevelopment == mode = "development"
        \* err.statusCode || 500
        statusCode == IF err.statusCode = Undefined \/ err.statusCode = 0
                      THEN 500
                      ELSE err.statusCode
        clientMessage == IF err.expose \/ statusCode < 500
                         THEN err.message
                         ELSE "Internal server error"
        details == IF isDevelopment /\ statusCode >= 500
                   THEN <<[stack |-> err.stack, originalMessage |-> err.message]>>
                   ELSE NoDetails
    IN  [status |-> statusCode, error |-> clientMessage,
         statusCode |-> statusCode, details |-> details]

\* The process as started under NODE_ENV = mode.
Env(mode) ==
    /\ nodeEnv = mode
    /\ errIn = NoError
    /\ errOut = NoBody

\* A handler throws err; wrapped says whether it runs under asyncHandler.
OnError(err, wrapped) ==
    /\ errIn' = (IF wrapped THEN asyncHandler(err) ELSE err)
    /\ errOut' = createSecureErrorHandler(errIn', nodeEnv)
    /\ UNCHANGED nodeEnv
    /\ UNCHANGED <<clock, store, ledger, tokens_out, loggedOut, cutNow, lastResp,
                   registered, limiter, resets, exceptErrs>>

----------------------------------------------------------------------------
\* The middleware chain of the /auth routes: app.use("*", globalRateLimit), then
\* auth.use(route, authRateLimit / strictRateLimit), then the route's handler.

LimitedRoutes == {"/login", "/register", "/forgot-password", "/reset-password"}

\* auth.use("/login", authRateLimit) ... auth.use("/reset-password", strictRateLimit)
routeLimiter(route) ==
    IF route \in {"/login", "/register"} THEN "auth" ELSE "strict"

\* The three limiters as the environment configures them (RATE_LIMIT_*_WINDOW_MS,
\* RATE_LIMIT_*_MAX_REQUESTS), here with ceilings a few requests reach.
Limits ==
    [global |-> [windowSize |-> 1000, maxRequests |-> 2],
     auth |-> [windowSize |-> 2500, maxRequests |-> 1],
     strict |-> [windowSize |-> 2500, maxRequests |-> 2]]

\* limiter.isAllowed(c) of the limiter configured as L, for the client whose
\* entry is clientData, at time t: what it returns and the entry it leaves.
isAllowedOf(L, clientData, t) ==
    IF clientData = NoClientData \/ windowExpired(clientData, t)
    THEN [allowed |-> TRUE, retryAfter |-> Undefined,
          entry |-> [count |-> 1, resetTime |-> t + L.windowSize]]
    ELSE IF clientData.count >= L.maxRequests
    THEN [allowed |-> FALSE,
          retryAfter |-> MathCeil(clientData.resetTime - t, 1000),
          entry |-> clientData]
    ELSE [allowed |-> TRUE, retryAfter |-> Undefined,
          entry |-> [clientData EXCEPT !.count = clientData.count + 1]]

\* How far the clock moves between requests: past the shorter windows.
GateSteps == {1500}

\* The 429 of createRateLimitMiddleware.
rateLimitResponse ==
    Response("rate-limit", 429, "Rate limit exceeded. Please try again later.",
             NoToken, 0, {})

\* The tables the Session Authority reads and writes.
Tables == <<users, token_blacklist, user_logout_timestamps>>

NoArrival == [clientId |-> "", route |-> "", checked |-> <<>>, stage |-> "none",
              tables |-> <<{}, {}, {}>>]

GateInit ==
    /\ limiters = [name \in {"global", "auth", "strict"} |->
                      [c \in Clients |-> NoClientData]]
    /\ inflight = NoArrival
    /\ arrivals = 0

\* A request of client clientId for one of the limited routes comes in and runs
\* through globalRateLimit and the route's limiter.
Arrive(clientId, route) ==
    /\ arrivals < MaxArrivals
    /\ arrivals' = arrivals + 1
    /\ LET name == routeLimiter(route)
           g == isAllowedOf(Limits.global, limiters.global[clientId], nowMs)
           r == isAllowedOf(Limits[name], limiters[name][clientId], nowMs)
           \* await next() of globalRateLimit, of the route's limiter
           gNext == rateLimitStatus(g) # 429
           rNext == gNext /\ rateLimitStatus(r) # 429
       IN  /\ limiters' =
                 [name2 \in DOMAIN limiters |->
                     [c \in Clients |->
                         IF c # clientId THEN limiters[name2][c]
                         ELSE IF name2 = "global" THEN g.entry
                         ELSE IF name2 = name /\ gNext THEN r.entry
                         ELSE limiters[name2][c]]]
           /\ inflight' =
                 [clientId |-> clientId, route |-> route,
                  checked |-> IF gNext
                              THEN <<[limiter |-> "global", allowed |-> g.allowed],
                                     [limiter |-> name, allowed |-> r.allowed]>>
                              ELSE <<[limiter |-> "global", allowed |-> g.allowed]>>,
                  stage |-> IF rNext THEN "admitted" ELSE "rejected",
                  tables |-> Tables]
           /\ lastResp' = IF rNext THEN NoResponse ELSE rateLimitResponse
    /\ registered' = NoResponse
    /\ UNCHANGED <<clock, store, ledger, tokens_out, loggedOut, cutNow, limiter,
                   resets, exceptGates>>

----------------------------------------------------------------------------
\* The frontend's response interceptor (services/api.ts).

Requests == 1 .. MaxRequests

\* Where the frontend sends requests to.
Urls == {"/transactions", "/auth/login"}

\* What the server answers with.
Statuses == {200, 401, 500}

NoRequest == [url |-> "", retry |-> FALSE, state |-> "new", sends |-> 0]

FrontInit ==
    /\ isRefreshing = FALSE
    /\ failedQueue = <<>>
    /\ reqs = [r \in Requests |-> NoRequest]
    /\ refreshes = {}
    /\ seen401 = [request |-> 0, status |-> 0, during |-> FALSE,
                  eligible |-> FALSE, decision |-> ""]
    /\ settled = [by |-> 0, success |-> FALSE, queue |-> <<>>]

\* The condition under which the interceptor tries a refresh for the request.
refreshable(status, request) ==
    /\ status = 401
    /\ ~request.retry
    /\ request.url \notin {"/auth/refresh", "/auth/login", "/auth/register"}

onRejected_NoQueue(status, request) ==
    IF refreshable(status, request) THEN "refresh" ELSE "reject"

\* What the interceptor's error handler does with the error response of a request.
onRejected(status, request) ==
    IF refreshable(status, request)
    THEN IF isRefreshing THEN "queue" ELSE "refresh"
    ELSE "reject"

\* api(originalRequest): the request goes out again.
replay(request) ==
    [request EXCEPT !.state = "inflight", !.sends = request.sends + 1]

\* The requests once processQueue(error) has run and its promises have settled:
\* error is FALSE for processQueue(null, "refreshed").
processQueue(error) ==
    [r \in Requests |->
        IF \E i \in DOMAIN failedQueue : failedQueue[i] = r
        THEN IF error THEN [reqs[r] EXCEPT !.state = "rejected"] ELSE replay(reqs[r])
        ELSE reqs[r]]

\* A component calls api.get / api.post.
Call(r, url) ==
    /\ reqs[r].state = "new"
    /\ reqs' = [reqs EXCEPT ![r] = [url |-> url, retry |-> FALSE,
                                    state |-> "inflight", sends |-> 1]]
    /\ UNCHANGED <<isRefreshing, failedQueue, refreshes, seen401, settled>>
    /\ UNCHANGED <<clock, store, ledger, tokens_out, loggedOut, cutNow, lastResp,
                   registered, limiter, resets, exceptFronts>>

\* The response to request r comes in and runs through the interceptor.
Answer(r, status) ==
    /\ reqs[r].state = "inflight"
    /\ IF status = 200
       THEN /\ reqs' = [reqs EXCEPT ![r].state = "fulfilled"]
            /\ UNCHANGED <<isRefreshing, failedQueue, refreshes, seen401>>
       ELSE LET decision == onRejected(status, reqs[r])
            IN  /\ seen401' = [request |-> r, status |-> status,
                               during |-> refreshes # {},
                               eligible |-> refreshable(status, reqs[r]),
                               decision |-> decision]
                /\ IF decision = "queue"
                   THEN /\ failedQueue' = Append(failedQueue, r)
                        /\ reqs' = [reqs EXCEPT ![r].state = "queued"]
                        /\ UNCHANGED <<isRefreshing, refreshes>>
                   ELSE IF decision = "refresh"
                   \* originalRequest._retry = true; isRefreshing = true;
                   \* api.post("/auth/refresh")
                   THEN /\ reqs' = [reqs EXCEPT ![r].retry = TRUE,
                                                ![r].state = "refreshing"]
                        /\ isRefreshing' = TRUE
                        /\ refreshes' = refreshes \cup {r}
                        /\ UNCHANGED failedQueue
                   ELSE /\ reqs' = [reqs EXCEPT ![r].state = "rejected"]
                        /\ UNCHANGED <<isRefreshing, failedQueue, refreshes>>
    /\ UNCHANGED settled
    /\ UNCHANGED <<clock, store, ledger, tokens_out, loggedOut, cutNow, lastResp,
                   registered, limiter, resets, exceptFronts>>

\* The POST /auth/refresh started for request r settles: try / catch / finally.
RefreshSettled(r, success) ==
    /\ r \in refreshes
    /\ refreshes' = refreshes \ {r}
    /\ reqs' = [processQueue(~success) EXCEPT
                   ![r] = IF success THEN replay(reqs[r])
                          ELSE [reqs[r] EXCEPT !.state = "rejected"]]
    /\ failedQueue' = <<>>
    /\ isRefreshing' = FALSE
    /\ settled' = [by |-> r, success |-> success, queue |-> failedQueue]
    /\ UNCHANGED seen401
    /\ UNCHANGED <<clock, store, ledger, tokens_out, loggedOut, cutNow, lastResp,
                   registered, limiter, resets, exceptFronts>>

\* No call of isTokenValidForUser yet.
NoValidity == [userId |-> 0, tokenIssuedAt |-> Undefined, logout_at |-> {},
               result |-> TRUE]

\* Clients that send registrations side by side.
Callers == 1 .. MaxCallers

NoRegCall == [pc |-> "idle", no |-> 0, email |-> "",
              password |-> [text |-> "", length |-> 0], id |-> 0, retry |-> FALSE]

RegInit ==
    /\ regCalls = [c \in Callers |-> NoRegCall]
    /\ regCount = 0
    /\ regLog = {}

AuthInit ==
    /\ now = 0
    /\ ticks = 0
    /\ users = {}
    /\ nextId = 1
    /\ token_blacklist = {}
    /\ user_logout_timestamps = {}
    /\ issued = {}
    /\ pastTTL = {}
    /\ loggedOut = {}
    /\ beforeAll = {}
    /\ afterAll = {}
    /\ cutNow = {}
    /\ lastResp = NoResponse
    /\ registered = NoResponse
    /\ nextResetToken = 1
    /\ resetIssued = {}
    /\ resetUsed = {}
    /\ lastReset = NoReset
    /\ RegInit
    /\ validSeen = NoValidity
    /\ GateInit
    /\ FrontInit

\* The server once it listens: empty tables, the globalLimiter constructed.
Init ==
    /\ AuthInit
    /\ RateLimiter(RATE_LIMIT_WINDOW_MS, RATE_LIMIT_MAX_REQUESTS)
    /\ Env("development")

registerError_NoLookup(email, password) ==
    IF password.length < 8
    THEN "Password must be at least 8 characters long"
    ELSE ""

\* The message of the Error AuthService.register throws, "" when it throws none.
registerError(email, password) ==
    IF findByEmail(email) # {}
    THEN "User with this email already exists"
    ELSE IF password.length < 8
    THEN "Password must be at least 8 characters long"
    ELSE ""

registerCatch_ServerError(message) ==
    Response("register", 500, "Registration failed", NoToken, 0, {})

\* The response of the catch block of POST /auth/register.
registerCatch(message) == Response("register", 400, message, NoToken, 0, {})

\* POST /auth/register
Register(email, password) ==
    /\ UNCHANGED <<clock, ledger, loggedOut, cutNow, limiter, resets, extras>>
    /\ IF password.length < 8
       \* zValidator("json", registerSchema)
       THEN /\ Respond(Because(Response("register", 400,
                    "Password must be at least 8 characters long", NoToken, 0, {}),
                    "schema"))
            /\ UNCHANGED <<store, tokens_out>>
       ELSE IF registerError(email, password) # ""
       THEN /\ Respond(Because(registerCatch(registerError(email, password)),
                               "thrown"))
            /\ UNCHANGED <<store, tokens_out>>
       ELSE /\ nextId <= MaxUsers
            /\ LET user == [id |-> nextId, email |-> email,
                            password_hash |-> bcryptHash(password),
                            password_reset_token |-> Null,
                            password_reset_expires |-> Null]
                   tokens == generateTokens(user)
               IN  /\ users' = users \cup {user}
                   /\ nextId' = nextId + 1
                   /\ Issue({tokens.accessToken, tokens.refreshToken})
                   /\ Respond(Response("register", 201, "", NoToken, user.id,
                                       SetCookies(tokens)))

----------------------------------------------------------------------------
\* POST /auth/register, one await at a time: handlers of several requests
\* interleave between the SELECT, the INSERT and the signing of the tokens.

usersEmailUnique_Dropped(email) == TRUE

\* email VARCHAR(255) UNIQUE NOT NULL: TRUE when the INSERT of a row with this
\* email goes through, FALSE when PostgreSQL raises a unique violation.
usersEmailUnique(email) == findByEmail(email) = {}

\* The response to the request regCalls[c] has gone out.
RegAnswer(c, resp) ==
    /\ regLog' = regLog \cup
          {[no |-> regCalls[c].no, email |-> regCalls[c].email,
            password |-> regCalls[c].password, retry |-> regCalls[c].retry,
            resp |-> resp]}
    /\ regCalls' = [regCalls EXCEPT ![c] = NoRegCall]

\* The request arrives: zValidator("json", registerSchema), then register is entered.
RegStart(c, email, password) ==
    /\ regCalls[c].pc = "idle"
    /\ regCount < MaxRegCalls
    /\ regCount' = regCount + 1
    /\ LET call == [pc |-> "find", no |-> regCount + 1, email |-> email,
                    password |-> password, id |-> 0,
                    \* a request like one whose tokens could not be signed
                    retry |-> \E r \in regLog :
                                 /\ r.resp.cause = "sign-failed"
                                 /\ r.email = email
                                 /\ r.password = password]
       IN  IF password.length < 8
           THEN regLog' = regLog \cup
                    {[no |-> call.no, email |-> email, password |-> password,
                      retry |-> call.retry,
                      resp |-> Because(Response("register", 400,
                                 "Password must be at least 8 characters long",
                                 NoToken, 0, {}), "schema")]}
                /\ UNCHANGED regCalls
           ELSE regCalls' = [regCalls EXCEPT ![c] = call]
                /\ UNCHANGED regLog
    /\ UNCHANGED <<clock, store, ledger, tokens_out, loggedOut, cutNow, lastResp,
                   registered, limiter, resets, exceptRegs>>

\* await UserService.findByEmail(email), and the two checks that follow it.
RegFind(c) ==
    /\ regCalls[c].pc = "find"
    /\ LET message == registerError(regCalls[c].email, regCalls[c].password)
       IN  IF message # ""
           THEN RegAnswer(c, Because(registerCatch(message), "thrown"))
           ELSE /\ regCalls' = [regCalls EXCEPT ![c].pc = "create"]
                /\ UNCHANGED regLog
    /\ UNCHANGED <<clock, store, ledger, tokens_out, loggedOut, cutNow, lastResp,
                   registered, limiter, resets, exceptRegs, regCount>>

\* await UserService.create(...): the INSERT ... RETURNING *.
RegCreate(c) ==
    /\ regCalls[c].pc = "create"
    /\ IF usersEmailUnique(regCalls[c].email)
       THEN /\ users' = users \cup
                   {[id |-> nextId, email |-> regCalls[c].email,
                     password_hash |-> bcryptHash(regCalls[c].password),
                     password_reset_token |-> Null,
                     password_reset_expires |-> Null]}
            /\ nextId' = nextId + 1
            /\ regCalls' = [regCalls EXCEPT ![c].pc = "sign", ![c].id = nextId]
            /\ UNCHANGED regLog
       ELSE /\ RegAnswer(c, Because(registerCatch(
                   "duplicate key value violates unique constraint"),
                   "unique-violation"))
            /\ UNCHANGED store
    /\ UNCHANGED <<clock, ledger, tokens_out, loggedOut, cutNow, lastResp,
                   registered, limiter, resets, exceptRegs, regCount>>

\* await this.generateTokens(user), then the cookies and the 201; signed is FALSE
\* when hono's sign rejects.
RegSign(c, signed) ==
    /\ regCalls[c].pc = "sign"
    /\ LET user == CHOOSE u \in users : u.id = regCalls[c].id
           tokens == generateTokens(user)
       IN  IF signed
           THEN /\ Issue({tokens.accessToken, tokens.refreshToken})
                /\ RegAnswer(c, Response("register", 201, "", NoToken, user.id,
                                         SetCookies(tokens)))
           ELSE /\ UNCHANGED tokens_out
                /\ RegAnswer(c, Because(registerCatch("sign failed"),
                                        "sign-failed"))
    /\ UNCHANGED <<clock, store, ledger, loggedOut, cutNow, lastResp,
                   registered, limiter, resets, exceptRegs, regCount>>

loginError_RevealsEmail(email, password) ==
    IF findByEmail(email) = {}
    THEN "No account with this email"
    ELSE IF \E u \in findByEmail(email) : ~verifyPassword(password, u.password_hash)
    THEN "Invalid email or password"
    ELSE ""

\* The message of the Error AuthService.login throws, "" when it throws none.
loginError(email, password) ==
    IF findByEmail(email) = {}
    THEN "Invalid email or password"
    ELSE IF \E u \in findByEmail(email) : ~verifyPassword(password, u.password_hash)
    THEN "Invalid email or password"
    ELSE ""

\* The response of the catch block of POST /auth/login.
loginCatch(message) == Response("login", 401, message, NoToken, 0, {})

\* POST /auth/login
Login(email, password) ==
    /\ UNCHANGED <<clock, store, ledger, loggedOut, cutNow, limiter, resets, extras>>
    /\ IF loginError(email, password) # ""
       THEN /\ Respond(Because(loginCatch(loginError(email, password)),
                               IF findByEmail(email) = {}
                               THEN "unknown-email"
                               ELSE "wrong-password"))
            /\ UNCHANGED tokens_out
       ELSE \E user \in findByEmail(email) :
                LET tokens == generateTokens(user)
                IN  /\ Issue({tokens.accessToken, tokens.refreshToken})
                    /\ Respond(Response("login", 200, "", NoToken, user.id,
                                        SetCookies(tokens)))

\* AuthService.refreshAccessToken: TRUE when it returns a token pair.
refreshAccessToken(refreshToken) ==
    /\ verifyRefreshToken(refreshToken)
    /\ findById(refreshToken.claims.userId) # {}

\* POST /auth/refresh
Refresh(refreshToken) ==
    /\ UNCHANGED <<clock, store, ledger, loggedOut, cutNow, limiter, resets, extras>>
    /\ IF refreshToken = NoToken
       THEN /\ Respond(Response("refresh", 401, "No refresh token provided",
                                refreshToken, 0, {}))
            /\ UNCHANGED tokens_out
       ELSE IF ~refreshAccessToken(refreshToken)
       THEN /\ Respond(Response("refresh", 401, "Token refresh failed",
                                refreshToken, 0, {}))
            /\ UNCHANGED tokens_out
       ELSE \E user \in findById(refreshToken.claims.userId) :
                LET tokens == generateTokens(user)
                IN  /\ Issue({tokens.accessToken, tokens.refreshToken})
                    /\ Respond(Response("refresh", 200, "", refreshToken, user.id,
                                        SetCookies(tokens)))

\* The response POST /auth/logout gives at the end of its try block.
logoutDone(accessToken) == Response("logout", 200, "", accessToken, 0, ClearCookies)

logoutCatch_ServerError(accessToken) ==
    Response("logout", 500, "Logout failed", accessToken, 0, {})

\* The response of the catch block of POST /auth/logout.
logoutCatch(accessToken) == Response("logout", 200, "", accessToken, 0, ClearCookies)

\* POST /auth/logout
Logout(accessToken, salt) ==
    /\ UNCHANGED <<clock, store, user_logout_timestamps, tokens_out, cutNow, limiter, resets, extras>>
    /\ IF accessToken = NoToken
       THEN /\ Respond(Because(logoutDone(accessToken), "missing"))
            /\ UNCHANGED <<token_blacklist, loggedOut>>
       ELSE IF ~verifyAccessToken(accessToken)
       THEN /\ Respond(Because(logoutDone(accessToken), "invalid"))
            /\ UNCHANGED <<token_blacklist, loggedOut>>
       \* user_id REFERENCES users(id): the insert throws for a deleted user
       ELSE IF findById(accessToken.claims.userId) = {}
       THEN /\ Respond(Because(logoutCatch(accessToken), "write-failed"))
            /\ loggedOut' = loggedOut \cup {accessToken}
            /\ UNCHANGED token_blacklist
       ELSE /\ Respond(Because(logoutDone(accessToken), "blacklisted"))
            /\ loggedOut' = loggedOut \cup {accessToken}
            /\ token_blacklist' =
                  blacklistToken(accessToken, accessToken.claims.userId, salt)

\* POST /auth/logout-all
LogoutAll(token) ==
    /\ UNCHANGED <<clock, store, token_blacklist, issued, pastTTL, loggedOut, limiter, resets, extras>>
    /\ IF token = NoToken
       THEN /\ Respond(Response("logout-all", 401, "No token provided", token, 0, {}))
            /\ UNCHANGED <<user_logout_timestamps, cutoffs>>
       ELSE IF ~verifyToken(token, NoType)
       THEN /\ Respond(Response("logout-all", 401, "Invalid token", token, 0, {}))
            /\ UNCHANGED <<user_logout_timestamps, cutoffs>>
       \* user_id REFERENCES users(id): the upsert fails for a deleted user
       ELSE IF findById(token.claims.userId) = {}
       THEN /\ Respond(Response("logout-all", 500, "Logout failed", token, 0, {}))
            /\ UNCHANGED <<user_logout_timestamps, cutoffs>>
       ELSE /\ user_logout_timestamps' = blacklistAllUserTokens(token.claims.userId)
            /\ beforeAll' = beforeAll \cup
                  {t \in issued : t.claims.userId = token.claims.userId}
            /\ afterAll' =
                  {t \in afterAll : t.claims.userId # token.claims.userId}
            /\ cutNow' = cutNow \cup {token.claims.userId}
            /\ Respond(Response("logout-all", 200, "", token, token.claims.userId, {}))

\* A request to a route behind authMiddleware (users, transactions, categories, budgets).
AuthRequest(accessToken, salt) ==
    /\ UNCHANGED <<clock, store, ledger, tokens_out, loggedOut, cutNow, limiter, resets, extras>>
    /\ Respond(authMiddleware(accessToken, salt))

\* The rows AuthService.getUserFromToken returns (none for null).
getUserFromToken(token) ==
    IF ~verifyToken(token, NoType)
    THEN {}
    ELSE findById(token.claims.userId)

\* The response of GET /auth/me.
meRoute(accessToken) ==
    IF accessToken = NoToken
    THEN Response("me", 401, "No access token provided", accessToken, 0, {})
    ELSE IF getUserFromToken(accessToken) = {}
    THEN Response("me", 401, "Invalid or expired access token", accessToken, 0, {})
    ELSE Response("me", 200, "", accessToken, accessToken.claims.userId, {})

\* GET /auth/me
Me(accessToken) ==
    /\ UNCHANGED <<clock, store, ledger, tokens_out, loggedOut, cutNow, limiter, resets, extras>>
    /\ Respond(meRoute(accessToken))

\* Issue times a caller may pass: every second the clock can show, one more,
\* and none at all.
IssuedAts == (0 .. 2 * MaxTicks + 1) \cup {Undefined}

\* Steps of the clock of a second or two.
TickSeconds == {1, 2}

\* One call TokenBlacklist.isTokenValidForUser(userId, tokenIssuedAt).
CheckValidity(userId, tokenIssuedAt) ==
    /\ validSeen' =
          [userId |-> userId, tokenIssuedAt |-> tokenIssuedAt,
           logout_at |-> {r.logout_at : r \in {x \in user_logout_timestamps :
                                                  x.user_id = userId}},
           result |-> isTokenValidForUser(userId, tokenIssuedAt)]
    /\ UNCHANGED <<clock, store, ledger, tokens_out, loggedOut, cutNow, lastResp,
                   registered, limiter, resets, exceptValids>>

\* DELETE /users/account, once authMiddleware has let the request through (a request
\* it turns away is an AuthRequest): UserService.delete, and the tables that
\* reference users(id) cascade.
DeleteAccount(accessToken, salt) ==
    LET gate == authMiddleware(accessToken, salt)
    IN  /\ gate.status = 200
        /\ UNCHANGED <<clock, nextId, tokens_out, loggedOut, cutNow, limiter, resets, extras>>
        /\ Respond(Response("delete", 200, "", accessToken, gate.userId, {}))
        /\ users' = {u \in users : u.id # gate.userId}
        /\ token_blacklist' = {r \in token_blacklist : r.user_id # gate.userId}
        /\ user_logout_timestamps' =
              {r \in user_logout_timestamps : r.user_id # gate.userId}

\* TokenBlacklist.cleanupExpired, run by setInterval every hour.
CleanupExpired ==
    /\ UNCHANGED <<clock, store, tokens_out, loggedOut, cutNow, limiter, resets, extras>>
    /\ lastResp' = NoResponse
    /\ registered' = NoResponse
    /\ token_blacklist' = {r \in token_blacklist : ~(r.expires_at < now)}
    /\ user_logout_timestamps' =
          {r \in user_logout_timestamps : ~(r.logout_at < now - RetentionDays * Day)}

\* Time passes.
Tick(d) ==
    /\ ticks < MaxTicks
    /\ now' = now + d
    /\ ticks' = ticks + 1
    /\ pastTTL' = IF d >= AccessTTL THEN issued ELSE pastTTL
    /\ cutNow' = {}
    /\ lastResp' = NoResponse
    /\ registered' = NoResponse
    /\ UNCHANGED <<store, ledger, issued, loggedOut, beforeAll, afterAll, limiter, resets, extras>>

Next ==
    \/ \E e \in Emails, p \in Passwords : Register(e, p)
    \/ \E e \in LoginEmails, p \in Passwords : Login(e, p)
    \/ \E t \in Presentable : Refresh(t)
    \/ \E t \in Presentable, s \in Salts : Logout(t, s)
    \/ \E t \in Presentable : LogoutAll(t)
    \/ \E t \in Presentable, s \in Salts : AuthRequest(t, s)
    \/ \E t \in Presentable, s \in Salts : DeleteAccount(t, s)
    \/ CleanupExpired
    \/ \E d \in TickSteps : Tick(d)

Spec == Init /\ [][Next]_vars

\* One limiter of any window and ceiling, and the requests that reach it.
LimiterInit ==
    /\ AuthInit
    /\ \E w \in WindowSizes, n \in Ceilings : RateLimiter(w, n)
    /\ Env("development")

LimiterNext ==
    \/ \E c \in Clients : RateLimitRequest(c)
    \/ cleanup
    \/ \E d \in MsSteps : MsTick(d)

LimiterSpec == LimiterInit /\ [][LimiterNext]_vars

\* Accounts and the password-reset routes.
ResetNext ==
    \/ \E e \in Emails, p \in Passwords : Register(e, p)
    \/ \E e \in LoginEmails, sent \in BOOLEAN : ForgotPassword(e, sent)
    \/ \E t \in ResetTokens, p \in NewPasswords : ResetPassword(t, p)
    \/ \E d \in TickSteps : Tick(d)

ResetSpec == Init /\ [][ResetNext]_vars

\* Sessions, and GET /auth/me for the cookies they leave behind.
MeNext ==
    \/ \E e \in Emails, p \in Passwords : Register(e, p)
    \/ \E e \in LoginEmails, p \in Passwords : Login(e, p)
    \/ \E t \in Presentable, s \in Salts : Logout(t, s)
    \/ \E t \in Presentable : LogoutAll(t)
    \/ \E t \in Presentable, s \in Salts : DeleteAccount(t, s)
    \/ \E t \in Presentable : Me(t)
    \/ \E d \in TickSteps : Tick(d)

MeSpec == Init /\ [][MeNext]_vars

\* Logout-all cutoffs second by second, and the validity check against them.
ValidityNext ==
    \/ \E e \in Emails, p \in Passwords : Register(e, p)
    \/ \E t \in Presentable : LogoutAll(t)
    \/ \E id \in 1 .. MaxUsers + 1, at \in IssuedAts : CheckValidity(id, at)
    \/ \E d \in TickSeconds : Tick(d)

ValiditySpec == Init /\ [][ValidityNext]_vars

\* The handler of the route the chain let the request through to.
Handle ==
    /\ inflight.stage = "admitted"
    /\ lastResp = NoResponse
    /\ \/ inflight.route = "/register"
          /\ \E e \in Emails, p \in Passwords : Register(e, p)
       \/ inflight.route = "/login"
          /\ \E e \in LoginEmails, p \in Passwords : Login(e, p)
       \/ inflight.route = "/forgot-password"
          /\ \E e \in LoginEmails, sent \in BOOLEAN : ForgotPassword(e, sent)
       \/ inflight.route = "/reset-password"
          /\ \E t \in ResetTokens, p \in NewPasswords : ResetPassword(t, p)

\* Requests for the limited /auth routes, from arrival to handler.
GateNext ==
    \/ \E c \in Clients, route \in LimitedRoutes : Arrive(c, route)
    \/ Handle
    \/ \E d \in GateSteps : MsTick(d)

GateSpec == Init /\ [][GateNext]_vars

\* The frontend: requests, their responses, and the refreshes they set off.
FrontNext ==
    \/ \E r \in Requests, url \in Urls : Call(r, url)
    \/ \E r \in Requests, status \in Statuses : Answer(r, status)
    \/ \E r \in Requests, success \in BOOLEAN : RefreshSettled(r, success)

FrontSpec == Init /\ [][FrontNext]_vars

\* Registrations sent side by side.
RegisterNext ==
    \/ \E c \in Callers, e \in Applicants, p \in Passwords : RegStart(c, e, p)
    \/ \E c \in Callers : RegFind(c)
    \/ \E c \in Callers : RegCreate(c)
    \/ \E c \in Callers, signed \in BOOLEAN : RegSign(c, signed)

RegisterSpec == Init /\ [][RegisterNext]_vars

\* The error handler under each NODE_ENV, and the errors that reach it.
ErrorInit ==
    /\ AuthInit
    /\ RateLimiter(RATE_LIMIT_WINDOW_MS, RATE_LIMIT_MAX_REQUESTS)
    /\ \E mode \in Modes : Env(mode)

ErrorNext == \E err \in Thrown, wrapped \in BOOLEAN : OnError(err, wrapped)

ErrorSpec == ErrorInit /\ [][ErrorNext]_vars

----------------------------------------------------------------------------
\* Properties.

\* The token of a ledger row (the hash carries the token it was computed from).
TokenOf(r) == r.token_hash[1]

\* The response just served is the gate's answer to a correctly signed token of `kind`.
GateSaw(kind) ==
    /\ lastResp.op = "auth"
    /\ lastResp.token.sig = "HS256"
    /\ lastResp.token.claims.tokenType = kind

\* C1: once POST /auth/logout has been served for a valid access token, the
\* request-authentication gate answers every later request presenting that token
\* with 401.
C1_LoggedOutTokenRejected ==
    (lastResp.op = "auth" /\ lastResp.token \in loggedOut)
        => lastResp.status = 401

\* C2: once logout-all has recorded a user's cutoff, the gate rejects every access
\* token issued to that user at or before the cutoff, on every later request.
C2_TokensBeforeCutoffRejected ==
    (GateSaw("access") /\ lastResp.token \in beforeAll)
        => lastResp.status = 401

\* C3: an access token issued to the user strictly after the logout-all cutoff is
\* accepted by the gate when it is otherwise valid (not logged out, user exists).
C3_TokenAfterCutoffAccepted ==
    ( /\ GateSaw("access")
      /\ lastResp.token \in afterAll
      /\ lastResp.token \notin loggedOut
      /\ findById(lastResp.token.claims.userId) # {} )
        => lastResp.status = 200

\* C4: the gate never accepts a correctly signed token whose kind is refresh.
C4_GateRejectsRefreshKind ==
    GateSaw("refresh") => lastResp.status = 401

\* C5: refresh given a correctly signed access token issues nothing: POST
\* /auth/refresh answers 401 and sets no cookie.
C5_RefreshRejectsAccessKind ==
    ( /\ lastResp.op = "refresh"
      /\ lastResp.token.sig = "HS256"
      /\ lastResp.token.claims.tokenType = "access" )
        => (lastResp.status = 401 /\ lastResp.cookies = {})

\* C5 witness: an access token of an existing user was sent to POST /auth/refresh
\* and turned away.
C5_Witness ==
    /\ lastResp.op = "refresh"
    /\ lastResp.token \in issued
    /\ lastResp.token.claims.tokenType = "access"
    /\ findById(lastResp.token.claims.userId) # {}
    /\ lastResp.status = 401

\* C6: an issued access token carries the expiry issue time + AccessTTL, and the
\* gate rejects it once that time has elapsed.
C6_AccessTokenExpires ==
    /\ \A t \in issued :
          t.claims.tokenType = "access"
              => /\ t.claims.iat # Undefined
                 /\ t.claims.exp = t.claims.iat + AccessTTL
    /\ (GateSaw("access") /\ lastResp.token \in pastTTL)
          => lastResp.status = 401

\* The access_token cookie a response set.
AccessCookie(r) == {c.value : c \in {k \in r.cookies : k.name = "access_token"}}

\* C7: the access token an accepted registration returned, presented to the gate
\* right afterwards, is accepted and resolves to the id of the user just created.
C7_RegisterThenVerify ==
    ( /\ lastResp.op = "auth"
      /\ registered.status = 201
      /\ lastResp.token \in AccessCookie(registered) )
        => (lastResp.status = 200 /\ lastResp.userId = registered.userId)

\* C7 witness: the gate has just let through the token of the registration before it.
C7_Witness ==
    /\ lastResp.op = "auth"
    /\ registered.status = 201
    /\ lastResp.token \in AccessCookie(registered)
    /\ lastResp.status = 200
    /\ lastResp.userId = registered.userId

\* C8: after logout-all, POST /auth/refresh with a refresh token issued to that
\* user at or before the cutoff fails and issues no new pair.
C8_RefreshBeforeCutoffFails ==
    ( /\ lastResp.op = "refresh"
      /\ lastResp.token \in beforeAll
      /\ lastResp.token.claims.tokenType = "refresh" )
        => (lastResp.status = 401 /\ lastResp.cookies = {})

\* C9: a ledger entry never lapses before its token stops being valid, and the
\* gate never again accepts a token that has a ledger entry.
C9_BlacklistedNeverAccepted ==
    \A r \in token_blacklist :
        /\ TokenOf(r).claims.exp # Undefined
        /\ r.expires_at >= TokenOf(r).claims.exp
        /\ (lastResp.op = "auth" /\ lastResp.token = TokenOf(r))
              => lastResp.status = 401

\* C10: blacklisting a token again is a no-op: the ledger holds a single entry
\* for each token.
C10_SingleLedgerEntry ==
    \A t \in issued :
        Cardinality({r \in token_blacklist : TokenOf(r) = t}) <= 1

----------------------------------------------------------------------------
\* Properties of the rate limiter.

\* The response just served is the limiter's answer to a request.
LimiterSaw == lastCall.clientId # ""

\* The number of requests of client c let through at times within [t, t + windowSize].
AllowedWithin(c, t) ==
    Cardinality({i \in DOMAIN allowedAt[c] :
                    allowedAt[c][i] >= t /\ allowedAt[c][i] <= t + windowSize})

\* C11: a request of a client that already had maxRequests requests let through
\* in its current window is rejected, and every rejection carries a retryAfter
\* that is a strictly positive number of seconds.
C11_RejectedWithPositiveRetryAfter ==
    /\ ( /\ LimiterSaw
          /\ lastCall.before # NoClientData
          /\ nowMs <= lastCall.before.resetTime
          /\ lastCall.before.count >= maxRequests )
            => (~lastCall.allowed /\ lastCall.status = 429)
    /\ (LimiterSaw /\ ~lastCall.allowed) => lastCall.retryAfter > 0

\* C12: a request made after the client's deadline has passed is let through
\* whatever the count was, and the stored entry becomes count 1 with the reset
\* instant now + windowSize.
C12_ExpiredWindowResets ==
    ( /\ LimiterSaw
      /\ lastCall.before # NoClientData
      /\ nowMs > lastCall.before.resetTime )
        => /\ lastCall.allowed
           /\ requests[lastCall.clientId] =
                  [count |-> 1, resetTime |-> nowMs + windowSize]

\* C12 witness: a client that had used up its ceiling comes back after the
\* deadline and starts a new window.
C12_Witness ==
    /\ LimiterSaw
    /\ lastCall.before.count >= maxRequests
    /\ nowMs > lastCall.before.resetTime
    /\ lastCall.allowed
    /\ requests[lastCall.clientId] = [count |-> 1, resetTime |-> nowMs + windowSize]

\* C13: in any interval of length windowSize at most 2 * maxRequests requests of
\* one client are let through (an interval with the most requests starts at one).
C13_AtMostTwiceTheCeiling ==
    \A c \in Clients : \A i \in DOMAIN allowedAt[c] :
        AllowedWithin(c, allowedAt[c][i]) <= 2 * maxRequests

\* C13 witness: across a window boundary more requests of one client than the
\* ceiling were let through within one interval of length windowSize: the end
\* of one window and the whole of the next, 2 * maxRequests - 1 requests.
C13_Witness ==
    \E c \in Clients : \E i \in DOMAIN allowedAt[c] :
        /\ maxRequests > 1
        /\ AllowedWithin(c, allowedAt[c][i]) = 2 * maxRequests - 1
        /\ requests[c].count = maxRequests

----------------------------------------------------------------------------
\* Properties of the password reset.

\* POST /auth/reset-password has been served.
ResetSaw == lastReset.status # 0

\* C14: a reset token is single-use: once a resetPassword with the token has
\* changed a password, every later resetPassword with it fails (returns false)
\* and changes no password hash.
C14_ResetTokenSingleUse ==
    (ResetSaw /\ lastReset.wasUsed)
        => (~lastReset.ok /\ ~lastReset.changed)

\* C14 witness: a token that had reset a password was sent again, with a
\* password the policy accepts, and changed nothing.
C14_Witness ==
    /\ ResetSaw
    /\ lastReset.wasUsed
    /\ lastReset.strong
    /\ ~lastReset.ok
    /\ ~lastReset.changed

\* C15: once requestPasswordReset has stored a newer token for a user, a token
\* stored for that user earlier can no longer reset the password, and at most
\* one token matches a user's row.
C15_OneResetTokenPerUser ==
    /\ (ResetSaw /\ lastReset.superseded)
          => (~lastReset.ok /\ ~lastReset.changed)
    /\ \A u \in users :
          Cardinality({t \in ResetTokens : resetMatches(u, t)}) <= 1

\* C15 witness: the token of an earlier request was sent, with a password the
\* policy accepts, after a newer token had been stored and while that newer
\* token is still good; nothing changed.
C15_Witness ==
    /\ ResetSaw
    /\ lastReset.superseded
    /\ lastReset.strong
    /\ ~lastReset.wasUsed
    /\ ~lastReset.changed
    /\ \E u \in users : \E t \in ResetTokens : resetMatches(u, t)

\* C18: POST /auth/reset-password answers 200 only when the password was
\* reset, and 400 whenever the token matches no unexpired row or the new
\* password fails the policy.
C18_ResetPasswordStatus ==
    /\ (ResetSaw /\ lastReset.status = 200) => lastReset.changed
    /\ (ResetSaw /\ (~lastReset.matched \/ ~lastReset.strong))
          => lastReset.status = 400

----------------------------------------------------------------------------
\* Properties of the /auth routes' error handling.

\* C16: a login that fails because the password is wrong and a login that fails
\* because the email is not registered get the same response: status 401, the
\* message "Invalid email or password", no cookie set.
C16_LoginFailuresIndistinguishable ==
    /\ (lastResp.op = "login"
            /\ lastResp.cause \in {"unknown-email", "wrong-password"})
          => /\ lastResp.status = 401
             /\ lastResp.error = "Invalid email or password"
             /\ lastResp.cookies = {}
    /\ \A e1, e2 \in LoginEmails : \A p1, p2 \in Passwords :
          (loginError(e1, p1) # "" /\ loginError(e2, p2) # "")
              => loginCatch(loginError(e1, p1)) = loginCatch(loginError(e2, p2))

\* C16 witness: a login with a wrong password for a registered email has just
\* been turned away, and a login with an unregistered email would get the very
\* same status, message and cookies.
C16_Witness ==
    /\ lastResp.op = "login"
    /\ lastResp.cause = "wrong-password"
    /\ \E e \in LoginEmails : \E p \in Passwords :
          /\ findByEmail(e) = {}
          /\ loginCatch(loginError(e, p)) = Because(lastResp, "")

\* C17: registering an email that is already registered (with a password the
\* schema accepts) answers 400 "User with this email already exists", sets no
\* cookie, issues no token and leaves the users table as it was.
C17_DuplicateRegistrationRejected ==
    [][\A e \in Emails : \A p \in Passwords :
          (Register(e, p) /\ (\E u \in users : u.email = e) /\ ~(p.length < 8))
              => /\ lastResp'.status = 400
                 /\ lastResp'.error = "User with this email already exists"
                 /\ lastResp'.cookies = {}
                 /\ users' = users
                 /\ nextId' = nextId
                 /\ issued' = issued]_vars

\* C17 witness: a registration was turned away because the email is taken.
C17_Witness ==
    /\ lastResp.op = "register"
    /\ lastResp.cause = "thrown"
    /\ lastResp.status = 400
    /\ lastResp.error = "User with this email already exists"
    /\ users # {}

\* C19: POST /auth/logout answers 200 and clears both cookies, whether the
\* access cookie is missing, invalid or valid, and whether or not the ledger
\* write went through.
C19_LogoutAlwaysSucceeds ==
    lastResp.op = "logout"
        => /\ lastResp.status = 200
           /\ lastResp.error = ""
           /\ lastResp.cookies = ClearCookies
           /\ lastResp.cause \in {"missing", "invalid", "blacklisted", "write-failed"}

\* C19 witness: the ledger write failed (the token's user is gone), and logout
\* still answered 200 and cleared both cookies.
C19_Witness ==
    /\ lastResp.op = "logout"
    /\ lastResp.cause = "write-failed"
    /\ lastResp.status = 200
    /\ lastResp.cookies = ClearCookies

\* C20: whichever step of the gate turns a presented token away (ledger entry,
\* logout-all cutoff, signature or expiry, missing user), the response is the
\* same: status 401 and the same body.
C20_UndifferentiatedGateFailure ==
    \A t1, t2 \in Presentable \ {NoToken} : \A s1, s2 \in Salts :
        LET r1 == authMiddleware(t1, s1)
            r2 == authMiddleware(t2, s2)
        IN  (r1.status # 200 /\ r2.status # 200)
                => /\ r1.status = 401
                   /\ r2.status = 401
                   /\ r1.error = r2.error

----------------------------------------------------------------------------
\* Registration, step by step.

\* C21: when the signing of the tokens fails after register has created the
\* user, the row stays; a retry (the same request again) is answered 400 "User
\* with this email already exists", and the address never has a second row.
C21_RetryAfterSignFailure ==
    \A r \in regLog :
        /\ r.resp.cause = "sign-failed" => Cardinality(findByEmail(r.email)) = 1
        /\ r.retry =>
              /\ r.resp.status = 400
              /\ r.resp.error = "User with this email already exists"
              /\ r.resp.cookies = {}
              /\ Cardinality(findByEmail(r.email)) = 1

\* A retry of a registration whose tokens could not be signed was answered.
C21_Witness ==
    \E r \in regLog, f \in regLog :
        /\ r.retry /\ r.resp.status = 400
        /\ f.resp.cause = "sign-failed" /\ f.email = r.email /\ f.no < r.no

\* C28: however concurrent registrations for one address interleave, the
\* address has at most one row and at most one of the requests is answered
\* with a token pair; every other answered request failed, with no cookie.
C28_OneRowOneTokenPair ==
    /\ \A e \in Applicants :
          /\ Cardinality(findByEmail(e)) <= 1
          /\ Cardinality({r \in regLog : r.email = e /\ r.resp.status = 201}) <= 1
    /\ \A r \in regLog :
          r.resp.status # 201 => r.resp.status = 400 /\ r.resp.cookies = {}

\* Two requests for one address both passed the lookup; one has its token pair,
\* the other ran into the unique constraint.
C28_Witness ==
    \E r \in regLog, w \in regLog :
        /\ r.resp.cause = "unique-violation"
        /\ w.email = r.email /\ w.resp.status = 201

----------------------------------------------------------------------------
\* The error handler.

\* C22: for an error of status 500 or more that is not marked expose, the body
\* the error handler answers with holds neither the error's message nor its
\* stack, under every NODE_ENV.
C22_ServerErrorBodyHidesDetails ==
    (errOut.status >= 500 /\ ~errIn.expose) =>
        /\ errOut.error # errIn.message
        /\ errOut.details = NoDetails

----------------------------------------------------------------------------
\* The password-reset request.

\* C23: POST /auth/forgot-password answers with one and the same 200 response
\* for an address that is registered and for one that is not, and when storing
\* the reset token or sending the email fails.
C23_ForgotPasswordSameAnswer ==
    /\ lastResp.op = "forgot-password"
          => Because(lastResp, "") =
                Response("forgot-password", 200, "", NoToken, 0, {})
    /\ \A e1, e2 \in LoginEmails : \A s1, s2 \in BOOLEAN :
          forgotPasswordRoute(requestPasswordReset(e1, s1))
              = forgotPasswordRoute(requestPasswordReset(e2, s2))

\* The request was just served for a registered address whose token
\* requestPasswordReset reported as not stored, while another address is
\* unknown and gets the same answer.
C23_Witness ==
    /\ lastResp.op = "forgot-password"
    /\ lastResp.cause = "store-failed"
    /\ \E e \in LoginEmails :
          /\ findByEmail(e) = {}
          /\ requestPasswordReset(e, TRUE).cause = "unknown-email"
          /\ forgotPasswordRoute(requestPasswordReset(e, TRUE)) = Because(lastResp, "")

----------------------------------------------------------------------------
\* GET /auth/me.

\* C24: GET /auth/me answers 200 exactly for an access_token cookie that passes
\* the whole validation contract (correctly signed, not past its lifetime, of
\* kind access, not logged out, not issued at or before its user's logout-all
\* cutoff, user still there), and 401 for every other cookie value.
C24_MeOnlyForValidAccessCookie ==
    lastResp.op = "me" =>
        /\ lastResp.status \in {200, 401}
        /\ lastResp.status = 200 <=>
              /\ lastResp.token.sig = "HS256"
              /\ lastResp.token \notin pastTTL
              /\ lastResp.token.claims.tokenType = "access"
              /\ lastResp.token \notin loggedOut
              /\ lastResp.token \notin beforeAll
              /\ findById(lastResp.token.claims.userId) # {}

----------------------------------------------------------------------------
\* The logout-all cutoff.

\* C25: isTokenValidForUser(userId, issuedAt) returns true exactly when no
\* logout timestamp is stored for the user or issuedAt is strictly greater than
\* the stored timestamp, in seconds; issuedAt equal to the timestamp gives false.
C25_ValidIffAfterCutoff ==
    validSeen.userId # 0 /\ validSeen.tokenIssuedAt # Undefined =>
        /\ validSeen.result <=>
              \/ validSeen.logout_at = {}
              \/ \A at \in validSeen.logout_at : validSeen.tokenIssuedAt > at
        /\ validSeen.tokenIssuedAt \in validSeen.logout_at => ~validSeen.result

\* The check was made with the very second of the user's cutoff, some time
\* after the server started, and said no.
C25_Witness ==
    /\ validSeen.tokenIssuedAt \in validSeen.logout_at
    /\ validSeen.tokenIssuedAt > 0
    /\ ~validSeen.result

----------------------------------------------------------------------------
\* The limiter's entries.

\* C27: in a limiter with ceiling N >= 1 every stored client entry has
\* 1 <= count <= N, and a rejected request leaves the client's entry as it was:
\* the count is not incremented and the reset instant is not moved.
C27_CountWithinCeiling ==
    maxRequests >= 1 =>
        /\ \A c \in Clients :
              requests[c] # NoClientData
                  => (1 <= requests[c].count /\ requests[c].count <= maxRequests)
        /\ (LimiterSaw /\ ~lastCall.allowed)
              => requests[lastCall.clientId] = lastCall.before

\* A client at its ceiling of more than one has just been rejected.
C27_Witness ==
    /\ LimiterSaw
    /\ ~lastCall.allowed
    /\ maxRequests > 1
    /\ requests[lastCall.clientId].count = maxRequests

----------------------------------------------------------------------------
\* The middleware chain.

\* C26: a request for /login, /register, /forgot-password or /reset-password
\* reaches its handler only after globalRateLimit and the route's own limiter
\* let it through; a request a limiter rejects is answered 429 with no cookie,
\* and no handler runs for it: the tables stay as they were at its arrival.
C26_LimiterBeforeHandler ==
    /\ inflight.stage = "rejected" =>
          /\ lastResp = rateLimitResponse
          /\ lastResp.status = 429 /\ lastResp.cookies = {}
          /\ Tables = inflight.tables
    /\ lastResp.op \in {"register", "login", "forgot-password", "reset-password"} =>
          /\ inflight.stage = "admitted"
          /\ lastResp.op = (IF inflight.route = "/register" THEN "register"
                            ELSE IF inflight.route = "/login" THEN "login"
                            ELSE IF inflight.route = "/forgot-password"
                            THEN "forgot-password"
                            ELSE "reset-password")
          /\ inflight.checked =
                <<[limiter |-> "global", allowed |-> TRUE],
                  [limiter |-> routeLimiter(inflight.route), allowed |-> TRUE]>>

\* An account exists, and a second login attempt of a client within the
\* authLimiter's window was rejected by it after globalRateLimit let it pass.
C26_Witness ==
    /\ inflight.stage = "rejected"
    /\ inflight.route = "/login"
    /\ inflight.checked = <<[limiter |-> "global", allowed |-> TRUE],
                            [limiter |-> "auth", allowed |-> FALSE]>>
    /\ users # {}

----------------------------------------------------------------------------
\* The ledger's cleanup.

\* C29: cleanupExpired never changes what the request-authentication gate
\* answers: a token the gate rejected just before the cleanup ran is rejected
\* just after it as well, whether the cleanup removed blacklist entries or
\* logout-all timestamps older than 30 days.
C29_CleanupKeepsRejections ==
    [][CleanupExpired =>
          \A t \in Presentable, s \in Salts :
              authMiddleware(t, s).status = 401
                  => authMiddleware(t, s)'.status = 401]_vars

----------------------------------------------------------------------------
\* The frontend's refresh.

\* C30: at most one POST /auth/refresh is in flight at any time; a 401 that
\* arrives while one is in flight starts no second refresh, and is queued when
\* it is one the interceptor would refresh for; when the refresh settles every
\* queued request is sent again if it succeeded and rejected if it failed; and
\* the queue is empty whenever no refresh is in flight.
C30_SingleRefreshInFlight ==
    /\ [](/\ Cardinality(refreshes) <= 1
          /\ seen401.during => seen401.decision # "refresh"
          /\ (seen401.during /\ seen401.eligible) => seen401.decision = "queue"
          /\ refreshes = {} =>
                /\ failedQueue = <<>>
                /\ \A r \in Requests : reqs[r].state # "queued")
    /\ [][refreshes' # refreshes /\ refreshes' = {} =>
            \A i \in DOMAIN failedQueue :
                IF settled'.success
                THEN /\ reqs'[failedQueue[i]].state = "inflight"
                     /\ reqs'[failedQueue[i]].sends = reqs[failedQueue[i]].sends + 1
                ELSE reqs'[failedQueue[i]].state = "rejected"]_vars

\* A refresh with two requests waiting in the queue has succeeded and both are
\* on their way again.
C30_Witness ==
    /\ settled.success
    /\ Len(settled.queue) = 2
    /\ refreshes = {}
    /\ \A i \in DOMAIN settled.queue :
          reqs[settled.queue[i]].state = "inflight"
              /\ reqs[settled.queue[i]].sends = 2

====
